---- MODULE Spec2Model ----
(***************************************************************************)
(* Model of json_schema_operations.py: extract_schema_defaults and         *)
(* change_encoding.                                                        *)
(*                                                                         *)
(* A Python/JSON value is a record [k, s, items]: k is the Python type,    *)
(* s the payload of a scalar, items the (key, value) pairs of a dict in    *)
(* insertion order.  Python None and JSON null are the same value.         *)
(* extract_schema_defaults runs as a stack machine: one frame per          *)
(* activation, one step per loop iteration of line 94.                     *)
(***************************************************************************)
EXTENDS Integers, Sequences, FiniteSets, TLC

VARIABLES
    py3,          \* the interpreter: TRUE for Python 3, FALSE for Python 2 (lines 10-15)
    original,     \* the schema document as the caller first built it
    schema,       \* the schema object handed to extract_schema_defaults (mutated by line 127)
    schema0,      \* the value of that object when the running call was entered
    cur,          \* the running (or last) call: [kind, enc, loc]
    prev,         \* the call completed before it: [kind, enc, loc, out]
    stack,        \* activations of extract_schema_defaults, innermost last
    pc,           \* "idle", "running", "returned" or "raised"
    out,          \* outcome of the last completed call
    log           \* <<depth, property name>> of every loop iteration of the running call

vars == <<py3, original, schema, schema0, cur, prev, stack, pc, out, log>>

-----------------------------------------------------------------------------
(* Python values *)

None == [k |-> "none", s |-> "", items |-> <<>>]
PyStr(s) == [k |-> "str", s |-> s, items |-> <<>>]
PyBytes(s) == [k |-> "bytes", s |-> s, items |-> <<>>]
PyInt(s) == [k |-> "int", s |-> s, items |-> <<>>]
PyBool(s) == [k |-> "bool", s |-> s, items |-> <<>>]
PyDict(items) == [k |-> "dict", s |-> "", items |-> items]
PyList(items) == [k |-> "list", s |-> "", items |-> items]

\* An exception travelling up instead of a value.
Raise(what) == [k |-> "raise", s |-> what, items |-> <<>>]

IsRaise(v) == v.k = "raise"

IsString(v) == v.k \in {"str", "bytes"}

\* bool(v) of a Python value.
Truthy(v) ==
    CASE v.k = "none" -> FALSE
      [] v.k = "int" -> v.s # "0"
      [] v.k = "bool" -> v.s = "true"
      [] v.k \in {"str", "bytes"} -> v.s # ""
      [] OTHER -> Len(v.items) > 0

\* a == b (and equal hashes) for two dict keys.  Python 2 compares an ASCII
\* unicode with the str it encodes to as equal; Python 3 never finds a str
\* equal to a bytes.
KeyEq(a, b) ==
    IF IsString(a) /\ IsString(b)
    THEN a.s = b.s /\ (a.k = b.k \/ ~py3)
    ELSE a = b

HasKey(d, key) == \E n \in 1..Len(d.items) : KeyEq(d.items[n][1], key)

\* d[key] of a dict that has the key.
Item(d, key) ==
    d.items[CHOOSE n \in 1..Len(d.items) : KeyEq(d.items[n][1], key)][2]

\* d.get(key): None when the key is absent.
Get(d, key) == IF HasKey(d, key) THEN Item(d, key) ELSE None

\* d[key] = value: an existing key keeps its position, a new key is appended.
Put(d, key, value) ==
    IF HasKey(d, key)
    THEN PyDict([n \in 1..Len(d.items) |->
                 IF KeyEq(d.items[n][1], key)
                 THEN <<d.items[n][1], value>> ELSE d.items[n]])
    ELSE PyDict(Append(d.items, <<key, value>>))

\* a == b for two Python values: dicts compare without regard to order.
RECURSIVE PyEq(_, _)
PyEq(a, b) ==
    IF a.k = "dict" /\ b.k = "dict"
    THEN /\ Len(a.items) = Len(b.items)
         /\ \A n \in 1..Len(a.items) :
               /\ HasKey(b, a.items[n][1])
               /\ PyEq(a.items[n][2], Item(b, a.items[n][1]))
    ELSE IF IsString(a) /\ IsString(b) THEN KeyEq(a, b)
    ELSE a = b

-----------------------------------------------------------------------------
(* change_encoding, lines 18-48 *)

\* isinstance(v, basestring): str on Python 3, str and unicode on Python 2.
IsBasestring(v) == IF py3 THEN v.k = "str" ELSE IsString(v)

RECURSIVE change_encoding(_, _)
change_encoding(jsonObject, encoding) ==
    IF jsonObject.k = "dict"
    THEN PyDict([n \in 1..Len(jsonObject.items) |->
                 <<change_encoding(jsonObject.items[n][1], encoding),
                   change_encoding(jsonObject.items[n][2], encoding)>>])
    ELSE IF jsonObject.k = "list"
    THEN PyList([n \in 1..Len(jsonObject.items) |->
                 <<jsonObject.items[n][1],
                   change_encoding(jsonObject.items[n][2], encoding)>>])
    ELSE IF IsBasestring(jsonObject)
    THEN PyBytes(jsonObject.s)
    ELSE jsonObject

-----------------------------------------------------------------------------
(* The string operations of lines 98-102 and 119, on the reference strings  *)
(* that occur in the schemas below.                                         *)

FileRefs == {"file:ext.json", "file:gone.json"}

\* defPath.startswith("file:"), line 98.
startswith_file(defPath) == defPath \in FileRefs

\* os.path.normpath(defPath)[5:].split(os.sep), lines 101-102.
FileSegments(defPath) ==
    CASE defPath = "file:ext.json" -> <<"ext.json">>
      [] defPath = "file:gone.json" -> <<"gone.json">>

\* defPath.split("/")[1:], line 119.
LocalSegments(defPath) ==
    CASE defPath = "#/definitions/Point" -> <<"definitions", "Point">>
      [] defPath = "#/definitions/Alias" -> <<"definitions", "Alias">>
      [] defPath = "#/definitions/Num" -> <<"definitions", "Num">>
      [] defPath = "#/definitions/Missing" -> <<"definitions", "Missing">>
      [] defPath = "#/definitions/Num/type/x" -> <<"definitions", "Num", "type", "x">>
      [] defPath = "#/nowhere/Point" -> <<"nowhere", "Point">>
      [] defPath = "#/properties/a" -> <<"properties", "a">>

-----------------------------------------------------------------------------
(* Schema documents and the files of the external references *)

K(s) == PyStr(s)

Typed(t) == PyDict(<< <<K("type"), PyStr(t)>> >>)
TypedDef(t, d) == PyDict(<< <<K("type"), PyStr(t)>>, <<K("default"), d>> >>)
Ref(r) == PyDict(<< <<K("$ref"), PyStr(r)>> >>)
Obj(props) == PyDict(<< <<K("type"), PyStr("object")>>, <<K("properties"), PyDict(props)>> >>)
ObjDef(d, props) ==
    PyDict(<< <<K("default"), d>>, <<K("type"), PyStr("object")>>,
              <<K("properties"), PyDict(props)>> >>)

\* The top-level "definitions" of every schema document.
Definitions ==
    PyDict(<< <<K("Point"), Obj(<< <<K("x"), TypedDef("integer", PyInt("0"))>> >>)>>,
              <<K("Alias"), Ref("#/definitions/Point")>>,
              <<K("Num"), TypedDef("integer", PyInt("1"))>> >>)

DefinitionNames == {"Point", "Alias", "Num"}

\* os.getcwd(), line 106.
Cwd == "/cwd"

\* The files open() finds, by path segments.
Files ==
    (<<"/cwd", "ext.json">> :> TypedDef("integer", PyInt("7")))
    @@ (<<"/base", "ext.json">> :>
           Obj(<< <<K("x"), TypedDef("string", PyStr("s"))>> >>))

\* Properties without sub-properties.
Leaves ==
    { Typed("integer"), TypedDef("integer", PyInt("0")), TypedDef("integer", PyInt("1")),
      TypedDef("boolean", PyBool("false")), TypedDef("string", PyStr("")),
      TypedDef("array", PyList(<<>>)), TypedDef("number", None),
      Typed("null"), TypedDef("null", PyInt("1")),
      PyDict(<< <<K("default"), PyInt("1")>> >>),
      Typed("object"),
      Ref("#/definitions/Point") }

\* How many objects deep the properties of a nested object go on nesting.
MaxNest == 1

\* The element wrapped in n objects, each holding it as its property "x".
RECURSIVE Wrapped(_, _)
Wrapped(element, n) ==
    IF n = 0 THEN element ELSE Obj(<< <<K("x"), Wrapped(element, n - 1)>> >>)

\* The first and the second property of a nested object.
NestedFirst ==
    { Typed("integer"), TypedDef("integer", PyInt("1")), Typed("null"),
      Ref("#/definitions/Point"), Ref("#/properties/a") }
    \cup { Wrapped(element, n) :
              element \in {TypedDef("integer", PyInt("1")), Typed("string")},
              n \in 1..MaxNest }

NestedSecond ==
    { Typed("integer"), Ref("#/definitions/Point"), Ref("#/definitions/Num") }

SingleProps == { << <<K("b"), n>> >> : n \in NestedFirst }

NestedProps ==
    SingleProps
    \cup { << <<K("b"), n>>, <<K("c"), m>> >> : n \in NestedFirst, m \in NestedSecond }

\* Objects, and objects that declare a default of their own.
Objects ==
    { Obj(props) : props \in NestedProps }
    \cup { ObjDef(PyDict(<< <<K("b"), PyInt("0")>> >>), props) : props \in SingleProps }

\* The values of the root property "a" and of the root property "p".
ANodes == Leaves \cup Objects

PNodes ==
    { TypedDef("integer", PyInt("5")), Typed("string"),
      Ref("#/definitions/Point"), Ref("#/definitions/Alias"),
      Ref("#/definitions/Missing"), Ref("#/definitions/Num/type/x"),
      Ref("#/nowhere/Point"), Ref("#/properties/a"),
      Ref("file:ext.json"), Ref("file:gone.json"),
      Obj(<< <<K("b"), TypedDef("integer", PyInt("1"))>> >>) }

RootProps ==
    { <<>> }
    \cup { << <<K("a"), a>> >> : a \in ANodes }
    \cup { << <<K("p"), p>> >> : p \in PNodes }
    \cup { << <<K("a"), a>>, <<K("p"), p>> >> : a \in ANodes, p \in PNodes }

Schemas ==
    { PyDict(<< <<K("properties"), PyDict(props)>>, <<K("definitions"), Definitions>> >>) :
        props \in RootProps }
    \cup { PyDict(<< <<K("definitions"), Definitions>> >>) }

\* The arguments newEncoding and externalRefLoc of a call.
Encodings == {"", "utf-8"}
ExternalRefLocs == {"", "/base"}

-----------------------------------------------------------------------------
(* extract_schema_defaults, lines 51-143 *)

\* Lookup as d[key] would do it: an absent key raises.
LookupStrict(d, key) ==
    IF IsRaise(d) THEN d
    ELSE IF ~Truthy(d) THEN None
    ELSE IF d.k = "dict" THEN (IF HasKey(d, key) THEN Item(d, key) ELSE Raise("KeyError: ref"))
    ELSE Raise("AttributeError: get")

\* One step of the reduce of line 120: d.get(key) if d else None.
Lookup(d, key) ==
    IF IsRaise(d) THEN d
    ELSE IF ~Truthy(d) THEN None
    ELSE IF d.k = "dict" THEN Get(d, key)
    ELSE Raise("AttributeError: get")

\* reduce(lambda d, key: d.get(key) if d else None, defPath, schema), line 120.
RECURSIVE reduce(_, _)
reduce(defPath, d) ==
    IF defPath = <<>> THEN d
    ELSE reduce(Tail(defPath), Lookup(d, PyStr(Head(defPath))))

\* Lines 101-113: the external schema, re-encoded when newEncoding is set.
LoadExternal(defPath, newEncoding, externalRefLoc) ==
    LET path == <<IF externalRefLoc # "" THEN externalRefLoc ELSE Cwd>>
                   \o FileSegments(defPath)
    IN IF path \notin DOMAIN Files THEN Raise("IOError: open")
       ELSE IF newEncoding # "" THEN change_encoding(Files[path], newEncoding)
       ELSE Files[path]

\* Lines 96-120: the element a property stands for.
ResolveElement(sch, j, newEncoding, externalRefLoc) ==
    IF ~HasKey(j, K("$ref")) THEN j
    ELSE LET defPath == Get(j, K("$ref")).s
         IN IF startswith_file(defPath)
            THEN LoadExternal(defPath, newEncoding, externalRefLoc)
            ELSE reduce(LocalSegments(defPath), sch)

\* Line 123: j.get("type").
ElementType(j) ==
    IF IsRaise(j) THEN j
    ELSE IF j.k = "dict" THEN Get(j, K("type"))
    ELSE Raise("AttributeError: type")

IsObjectType(elementType) == PyEq(elementType, PyStr("object"))

BasicTypes == {"array", "boolean", "integer", "number", "string"}

IsBasicType(elementType) == \E t \in BasicTypes : PyEq(elementType, PyStr(t))

IsNullType(elementType) == PyEq(elementType, PyStr("null"))

\* Descent that hands the element itself to the recursive call.
DescendInto(sch, j) == j

\* Line 127: schema["properties"] = j["properties"].
Descend(sch, j) == Put(sch, K("properties"), Item(j, K("properties")))

\* The test "if default:" in place of "is not None".
KeepDefaultTruthy(default) == Truthy(default)

\* Line 135: default is not None.
KeepDefault(default) == default # None

\* The object's own default stored in place of what its properties gave.
ObjectDefaultsOwn(j, elementDefaults) ==
    IF HasKey(j, K("default")) THEN Get(j, K("default")) ELSE elementDefaults

\* Line 131: the value stored for an object element.
ObjectDefaults(j, elementDefaults) == elementDefaults

\* Lines 134-137.
AfterBasic(frame, i, j) ==
    LET default == Get(j, K("default"))
    IN IF KeepDefault(default)
       THEN [frame EXCEPT !.schemaDefaults = Put(@, i, default), !.defaultsFound = TRUE]
       ELSE frame

\* Lines 140-141.
AfterNull(frame, i) ==
    [frame EXCEPT !.schemaDefaults = Put(@, i, None), !.defaultsFound = TRUE]

\* The element stored without the test of line 129.
AfterObjectAlways(frame, elementDefaults, defaultExtracted) ==
    [frame EXCEPT !.schemaDefaults = Put(@, frame.i, ObjectDefaults(frame.j, elementDefaults)),
                  !.defaultsFound = @ \/ defaultExtracted]

\* Lines 129-131, once the recursive call of line 128 has returned.
AfterObject(frame, elementDefaults, defaultExtracted) ==
    IF defaultExtracted
    THEN [frame EXCEPT !.schemaDefaults = Put(@, frame.i, ObjectDefaults(frame.j, elementDefaults)),
                       !.defaultsFound = TRUE]
    ELSE frame

\* Lines 90-94: a new activation, iterating over the items of the mapping
\* that schema["properties"] is bound to at entry.
NewFrame(sch) ==
    [items |-> Get(sch, K("properties")).items, i |-> None, j |-> None,
     schemaDefaults |-> PyDict(<<>>), defaultsFound |-> FALSE]

\* Line 94 raises when schema.get("properties") has no items().
CanIterate(sch) == Get(sch, K("properties")).k = "dict"

\* The value looked up by name in whatever schema["properties"] is bound to now.
ItemValueLive(frame, sch) == Get(Get(sch, K("properties")), Head(frame.items)[1])

\* Line 94: the value j of the next (i, j) pair, taken from the mapping the
\* iterator was created on.
ItemValue(frame, sch) == Head(frame.items)[2]

NoCall == [kind |-> "none", enc |-> "", loc |-> ""]
NoOut == [status |-> "none", schemaDefaults |-> None, defaultsFound |-> FALSE, error |-> ""]
Returned(frame) ==
    [status |-> "returned", schemaDefaults |-> frame.schemaDefaults,
     defaultsFound |-> frame.defaultsFound, error |-> ""]
Raised(what) ==
    [status |-> "raised", schemaDefaults |-> None, defaultsFound |-> FALSE, error |-> what]

Top == stack[Len(stack)]

\* The loop variables of the iteration the innermost activation is about to run.
NextName == Head(Top.items)[1]
NextElement == ResolveElement(schema, ItemValue(Top, schema), cur.enc, cur.loc)
NextType == ElementType(NextElement)

\* The innermost activation with i and j bound and the iterator advanced.
Fetched == [Top EXCEPT !.items = Tail(@), !.i = NextName, !.j = NextElement]

ReplaceTop(frame) == [stack EXCEPT ![Len(stack)] = frame]

Iterating == pc = "running" /\ Top.items # <<>>

Init ==
    /\ py3 \in BOOLEAN
    /\ original \in Schemas
    /\ schema = original
    /\ schema0 = original
    /\ cur = NoCall
    /\ prev = [NoCall EXCEPT !.kind = "none"]
    /\ stack = <<>>
    /\ pc = "idle"
    /\ out = NoOut
    /\ log = <<>>

\* The entry of a call on the object sch with the given arguments.
Enter(kind, sch, newEncoding, externalRefLoc) ==
    /\ cur' = [kind |-> kind, enc |-> newEncoding, loc |-> externalRefLoc]
    /\ prev' = [kind |-> cur.kind, enc |-> cur.enc, loc |-> cur.loc, out |-> out]
    /\ schema' = sch
    /\ schema0' = sch
    /\ log' = <<>>
    /\ IF CanIterate(sch)
       THEN /\ stack' = <<NewFrame(sch)>>
            /\ pc' = "running"
            /\ out' = NoOut
       ELSE /\ stack' = <<>>
            /\ pc' = "raised"
            /\ out' = Raised("AttributeError: items")
    /\ UNCHANGED <<py3, original>>

\* The caller calls extract_schema_defaults on its schema object: the first
\* call on the document, or one more call on the object an earlier call was
\* given.
Call(newEncoding, externalRefLoc) ==
    /\ pc # "running"
    /\ Enter(IF pc = "idle" THEN "fresh" ELSE "reused", schema, newEncoding, externalRefLoc)

\* The element at the end of a path of property names.
RECURSIVE ElementAt(_, _)
ElementAt(node, path) ==
    IF path = <<>> THEN node
    ELSE IF node.k = "dict" /\ Get(node, K("properties")).k = "dict"
    THEN ElementAt(Get(Get(node, K("properties")), K(Head(path))), Tail(path))
    ELSE None

\* The document with the element at the path replaced.
RECURSIVE ReplaceAt(_, _, _)
ReplaceAt(node, path, element) ==
    IF path = <<>> THEN element
    ELSE Put(node, K("properties"),
             Put(Get(node, K("properties")), K(Head(path)),
                 ReplaceAt(Get(Get(node, K("properties")), K(Head(path))), Tail(path), element)))

InlinePaths == {<<"a">>, <<"p">>, <<"a", "b">>, <<"a", "c">>}

\* The element is exactly {"$ref": "#/definitions/<name>"} for a definition of the document.
IsDefinitionRef(doc, element, name) ==
    /\ element.k = "dict"
    /\ HasKey(element, K("$ref"))
    /\ ~startswith_file(Get(element, K("$ref")).s)
    /\ LocalSegments(Get(element, K("$ref")).s) = <<"definitions", name>>
    /\ HasKey(Get(doc, K("definitions")), K(name))

\* The caller builds the document again with the definition's body written
\* in place of one reference to it, and calls with the arguments of the
\* call it made on the document itself.
CallInlined(path, name) ==
    /\ pc # "running"
    /\ cur.kind = "fresh"
    /\ IsDefinitionRef(original, ElementAt(original, path), name)
    /\ Enter("inlined",
             ReplaceAt(original, path, Get(Get(original, K("definitions")), K(name))),
             cur.enc, cur.loc)

\* Lines 125-128: an object element; the recursive call is entered.
StepObject ==
    /\ Iterating
    /\ ~IsRaise(NextType)
    /\ IsObjectType(NextType)
    /\ HasKey(NextElement, K("properties"))
    /\ schema' = Descend(schema, NextElement)
    /\ log' = Append(log, <<Len(stack), NextName>>)
    /\ IF CanIterate(schema')
       THEN /\ stack' = Append(ReplaceTop(Fetched), NewFrame(schema'))
            /\ UNCHANGED <<pc, out>>
       ELSE /\ stack' = <<>>
            /\ pc' = "raised"
            /\ out' = Raised("AttributeError: items")
    /\ UNCHANGED <<py3, original, schema0, cur, prev>>

\* Lines 132-137: an element of a basic type.
StepBasic ==
    /\ Iterating
    /\ ~IsRaise(NextType)
    /\ ~IsObjectType(NextType)
    /\ IsBasicType(NextType)
    /\ stack' = ReplaceTop(AfterBasic(Fetched, NextName, NextElement))
    /\ log' = Append(log, <<Len(stack), NextName>>)
    /\ UNCHANGED <<py3, original, schema, schema0, cur, prev, pc, out>>

\* Lines 138-141: a null element.
StepNull ==
    /\ Iterating
    /\ ~IsRaise(NextType)
    /\ ~IsObjectType(NextType)
    /\ ~IsBasicType(NextType)
    /\ IsNullType(NextType)
    /\ stack' = ReplaceTop(AfterNull(Fetched, NextName))
    /\ log' = Append(log, <<Len(stack), NextName>>)
    /\ UNCHANGED <<py3, original, schema, schema0, cur, prev, pc, out>>

\* No branch of lines 125-141 is taken.
StepSkip ==
    /\ Iterating
    /\ ~IsRaise(NextType)
    /\ ~IsObjectType(NextType)
    /\ ~IsBasicType(NextType)
    /\ ~IsNullType(NextType)
    /\ stack' = ReplaceTop(Fetched)
    /\ log' = Append(log, <<Len(stack), NextName>>)
    /\ UNCHANGED <<py3, original, schema, schema0, cur, prev, pc, out>>

\* The exception of the iteration, if it raises one: from open() or the
\* reduce (lines 109, 120), from j.get of line 123, or from j["properties"]
\* of line 127.
StepError ==
    IF IsRaise(NextType) THEN NextType.s
    ELSE IF IsObjectType(NextType) /\ ~HasKey(NextElement, K("properties"))
    THEN "KeyError: properties"
    ELSE ""

\* An exception is caught nowhere: every activation is unwound.
StepRaise ==
    /\ Iterating
    /\ StepError # ""
    /\ stack' = <<>>
    /\ pc' = "raised"
    /\ out' = Raised(StepError)
    /\ log' = Append(log, <<Len(stack), NextName>>)
    /\ UNCHANGED <<py3, original, schema, schema0, cur, prev>>

\* Line 143 of a recursive call, and lines 129-131 of its caller.
ReturnToParent ==
    /\ pc = "running"
    /\ Top.items = <<>>
    /\ Len(stack) > 1
    /\ stack' = Append(SubSeq(stack, 1, Len(stack) - 2),
                       AfterObject(stack[Len(stack) - 1], Top.schemaDefaults, Top.defaultsFound))
    /\ UNCHANGED <<py3, original, schema, schema0, cur, prev, pc, out, log>>

\* Line 143 of the outermost call.
ReturnToCaller ==
    /\ pc = "running"
    /\ Top.items = <<>>
    /\ Len(stack) = 1
    /\ stack' = <<>>
    /\ pc' = "returned"
    /\ out' = Returned(Top)
    /\ UNCHANGED <<py3, original, schema, schema0, cur, prev, log>>

Next ==
    \/ \E newEncoding \in Encodings, externalRefLoc \in ExternalRefLocs :
          Call(newEncoding, externalRefLoc)
    \/ \E path \in InlinePaths, name \in DefinitionNames : CallInlined(path, name)
    \/ StepObject
    \/ StepBasic
    \/ StepNull
    \/ StepSkip
    \/ StepRaise
    \/ ReturnToParent
    \/ ReturnToCaller

Spec == Init /\ [][Next]_vars

-----------------------------------------------------------------------------
(* Properties *)

Completed == pc \in {"returned", "raised"}

Props(doc) == Get(doc, K("properties"))

\* The (defaults, found) pair of two outcomes is the same pair.
SamePair(o1, o2) ==
    /\ o1.status = "returned"
    /\ o2.status = "returned"
    /\ PyEq(o1.schemaDefaults, o2.schemaDefaults)
    /\ o1.defaultsFound = o2.defaultsFound

\* The element a property of the document stands for, references resolved
\* against the document as the call was given it.
Resolved(element) == ResolveElement(schema0, element, cur.enc, cur.loc)

DeclaredType(element) ==
    IF element.k = "dict" /\ Get(element, K("type")).k \in {"str", "bytes"}
    THEN Get(element, K("type")).s ELSE ""

ExplicitDefault(element) ==
    element.k = "dict" /\ HasKey(element, K("default")) /\ Get(element, K("default")) # None

RECURSIVE DescendantDefault(_)
DescendantDefault(element) ==
    /\ Get(element, K("properties")).k = "dict"
    /\ \E n \in 1..Len(Get(element, K("properties")).items) :
          LET child == Resolved(Get(element, K("properties")).items[n][2])
          IN \/ ExplicitDefault(child)
             \/ DeclaredType(child) = "null"
             \/ DeclaredType(child) = "object" /\ DescendantDefault(child)

ShouldAppear(element) ==
    \/ ExplicitDefault(element)
    \/ DeclaredType(element) = "null"
    \/ DeclaredType(element) = "object" /\ DescendantDefault(element)

\* C1: when a call on a document returns, a property of a declared JSON type
\* is a key of the defaults document if and only if it has an explicit
\* non-null default, or is null-typed, or is an object with a descendant
\* that has an explicit default or is null-typed.
C1_AppearsIffDefault ==
    (pc = "returned" /\ cur.kind = "fresh") =>
        \A n \in 1..Len(Props(schema0).items) :
            LET name == Props(schema0).items[n][1]
                element == Resolved(Props(schema0).items[n][2])
            IN DeclaredType(element) \in BasicTypes \cup {"object", "null"} =>
                 (HasKey(out.schemaDefaults, name) <=> ShouldAppear(element))

FalsyDefaults == {PyInt("0"), PyBool("false"), PyStr(""), PyList(<<>>)}

\* The iteration an activation has just run was on a basic-typed element.
RanBasic(frame) ==
    /\ frame.j.k = "dict"
    /\ IsBasicType(ElementType(frame.j))

\* C2: a basic-typed element whose default is present and not null is kept
\* under its property name with the declared value, the falsy values 0,
\* false, "" and [] included; one whose default is null or absent is not
\* kept.  Stated of every activation right after the iteration, and of the
\* returned document for the basic-typed properties of the document.
C2_BasicDefaultKept ==
    /\ \A d \in 1..Len(stack) :
          RanBasic(stack[d]) =>
             IF ExplicitDefault(stack[d].j)
             THEN /\ HasKey(stack[d].schemaDefaults, stack[d].i)
                  /\ Item(stack[d].schemaDefaults, stack[d].i) = Get(stack[d].j, K("default"))
                  /\ stack[d].defaultsFound
             ELSE ~HasKey(stack[d].schemaDefaults, stack[d].i)
    /\ (pc = "returned" /\ cur.kind = "fresh") =>
          \A n \in 1..Len(Props(schema0).items) :
             LET name == Props(schema0).items[n][1]
                 element == Props(schema0).items[n][2]
             IN DeclaredType(element) \in BasicTypes =>
                  IF ExplicitDefault(element)
                  THEN /\ HasKey(out.schemaDefaults, name)
                       /\ Item(out.schemaDefaults, name) = Get(element, K("default"))
                  ELSE ~HasKey(out.schemaDefaults, name)

C2_Witness ==
    /\ pc = "returned"
    /\ cur.kind = "fresh"
    /\ HasKey(out.schemaDefaults, K("a"))
    /\ Item(out.schemaDefaults, K("a")) \in FalsyDefaults
    /\ DeclaredType(Get(Props(schema0), K("a"))) \in BasicTypes

\* Every value of the document is what the sub-schema of its own path
\* yields: the declared default of a basic-typed element, null for a
\* null-typed one, and for an object the document of its properties.
RECURSIVE FromDeepest(_, _)
FromDeepest(doc, properties) ==
    \A n \in 1..Len(doc.items) :
        LET name == doc.items[n][1]
            value == doc.items[n][2]
            element == Resolved(Get(properties, name))
        IN /\ HasKey(properties, name)
           /\ CASE DeclaredType(element) = "object" ->
                     /\ value.k = "dict"
                     /\ Get(element, K("properties")).k = "dict"
                     /\ FromDeepest(value, Get(element, K("properties")))
                [] DeclaredType(element) = "null" -> value = None
                [] OTHER -> ExplicitDefault(element) /\ PyEq(value, Get(element, K("default")))

ParentAndChildDefault ==
    ObjDef(PyDict(<< <<K("b"), PyInt("0")>> >>),
           << <<K("b"), TypedDef("integer", PyInt("1"))>> >>)

\* C3: property a with default {"b": 0} and child b with default 1 gives
\* {"a": {"b": 1}}; and in every returned document the value at a path is
\* the one its deepest sub-schema yields, never an ancestor's default.
C3_DeepestDefaultWins ==
    pc = "returned" =>
        /\ FromDeepest(out.schemaDefaults, Props(schema0))
        /\ (Props(schema0).items = << <<K("a"), ParentAndChildDefault>> >>) =>
              /\ out.defaultsFound
              /\ out.schemaDefaults =
                    PyDict(<< <<K("a"), PyDict(<< <<K("b"), PyInt("1")>> >>)>> >>)

C3_Witness ==
    /\ pc = "returned"
    /\ Props(schema0).items = << <<K("a"), ParentAndChildDefault>> >>
    /\ Get(Get(out.schemaDefaults, K("a")), K("b")) = PyInt("1")

\* C4: a call on the document with one reference to a definition replaced
\* by the definition's body returns the pair the call on the document
\* itself returned.
C4_RefEqualsInline ==
    (Completed /\ cur.kind = "inlined" /\ prev.out.status = "returned") =>
        SamePair(out, prev.out)

\* C5: a second call on the same schema object with the same arguments
\* returns the pair the call before it returned.
C5_RepeatedCallSame ==
    (Completed /\ cur.kind = "reused" /\ prev.out.status = "returned"
        /\ cur.enc = prev.enc /\ cur.loc = prev.loc) =>
        SamePair(out, prev.out)

\* C6: the schema {"properties": {"p": {"$ref": "file:ext.json"}}} with
\* ext.json holding {"type": "integer", "default": 7}, called with a
\* non-empty encoding, returns ({"p": 7}, true).
C6_ExternalRefReencoded ==
    (Completed /\ cur.kind = "fresh" /\ cur.enc # "" /\ cur.loc = ""
        /\ Props(schema0).items = << <<K("p"), Ref("file:ext.json")>> >>) =>
        /\ out.status = "returned"
        /\ out.defaultsFound
        /\ PyEq(out.schemaDefaults, PyDict(<< <<K("p"), PyInt("7")>> >>))

\* Walking the pointer from d, a mapping is reached that lacks the next key.
RECURSIVE KeyAbsent(_, _)
KeyAbsent(d, path) ==
    /\ path # <<>>
    /\ d.k = "dict"
    /\ HasKey(d, K(Head(path))) => KeyAbsent(Item(d, K(Head(path))), Tail(path))

BrokenLocalRef(element, sch) ==
    /\ element.k = "dict"
    /\ HasKey(element, K("$ref"))
    /\ ~startswith_file(Get(element, K("$ref")).s)
    /\ KeyAbsent(sch, LocalSegments(Get(element, K("$ref")).s))

NextIsBroken == Iterating /\ BrokenLocalRef(Head(Top.items)[2], schema)

\* C7: when the property about to be processed holds a local $ref with an
\* absent segment key, the resolution raises nothing and yields None, the
\* read of the type raises, and the step ends the whole call with that
\* error and no (defaults, found) pair.
C7_BrokenRefRaises ==
    /\ [](NextIsBroken =>
            /\ NextElement = None
            /\ NextType = Raise("AttributeError: type"))
    /\ [][NextIsBroken =>
            /\ pc' = "raised"
            /\ stack' = <<>>
            /\ out' = Raised("AttributeError: type")]_vars

C7_Witness ==
    /\ pc = "raised"
    /\ out = Raised("AttributeError: type")
    /\ Get(Props(schema0), K("p")) = Ref("#/definitions/Missing")
    /\ DeclaredType(Get(Props(schema0), K("a"))) \in BasicTypes
    /\ ExplicitDefault(Get(Props(schema0), K("a")))
    /\ log = << <<1, K("a")>>, <<1, K("p")>> >>

\* C8: throughout a call every top-level key of the schema other than
\* "properties" keeps the value it had at entry, and a pointer into
\* "definitions" resolves to the node it resolved to at entry.
C8_DefinitionsStayReachable ==
    /\ \A n \in 1..Len(schema0.items) :
          schema0.items[n][1] # K("properties") =>
             /\ HasKey(schema, schema0.items[n][1])
             /\ Item(schema, schema0.items[n][1]) = schema0.items[n][2]
    /\ \A name \in DefinitionNames \cup {"Missing"} :
          reduce(<<"definitions", name>>, schema) = reduce(<<"definitions", name>>, schema0)

C8_Witness ==
    /\ Iterating
    /\ Len(stack) >= 2
    /\ schema # schema0
    /\ DeclaredType(Top.j) = "object"
    /\ Head(Top.items)[2] = Ref("#/definitions/Point")
    /\ NextElement = Get(Get(schema0, K("definitions")), K("Point"))

\* The extractor that keeps the root and the current mapping apart and
\* writes to neither.
RefAcc(lg) ==
    [status |-> "returned", schemaDefaults |-> PyDict(<<>>), defaultsFound |-> FALSE,
     error |-> "", log |-> lg]
RefFail(what, lg) ==
    [status |-> "raised", schemaDefaults |-> None, defaultsFound |-> FALSE,
     error |-> what, log |-> lg]

RECURSIVE Reference(_, _, _, _)
Reference(root, items, acc, depth) ==
    IF acc.status = "raised" \/ items = <<>> THEN acc
    ELSE LET i == Head(items)[1]
             j == ResolveElement(root, Head(items)[2], cur.enc, cur.loc)
             lg == Append(acc.log, <<depth, i>>)
             properties == Get(j, K("properties"))
         IN IF IsRaise(j) THEN RefFail(j.s, lg)
            ELSE IF j.k # "dict" THEN RefFail("AttributeError: type", lg)
            ELSE IF DeclaredType(j) = "object"
            THEN IF ~HasKey(j, K("properties")) THEN RefFail("KeyError: properties", lg)
                 ELSE IF properties.k # "dict" THEN RefFail("AttributeError: items", lg)
                 ELSE LET sub == Reference(root, properties.items, RefAcc(lg), depth + 1)
                      IN IF sub.status = "raised" THEN sub
                         ELSE Reference(root, Tail(items),
                                  [acc EXCEPT !.log = sub.log,
                                              !.schemaDefaults =
                                                  IF sub.defaultsFound
                                                  THEN Put(@, i, sub.schemaDefaults) ELSE @,
                                              !.defaultsFound = @ \/ sub.defaultsFound],
                                  depth)
            ELSE IF DeclaredType(j) \in BasicTypes /\ ExplicitDefault(j)
            THEN Reference(root, Tail(items),
                     [acc EXCEPT !.log = lg, !.defaultsFound = TRUE,
                                 !.schemaDefaults = Put(@, i, Get(j, K("default")))],
                     depth)
            ELSE IF DeclaredType(j) = "null"
            THEN Reference(root, Tail(items),
                     [acc EXCEPT !.log = lg, !.defaultsFound = TRUE,
                                 !.schemaDefaults = Put(@, i, None)],
                     depth)
            ELSE Reference(root, Tail(items), [acc EXCEPT !.log = lg], depth)

ReferenceCall(root) ==
    IF Props(root).k # "dict" THEN RefFail("AttributeError: items", <<>>)
    ELSE Reference(root, Props(root).items, RefAcc(<<>>), 1)

\* No local reference of the document starts at "properties".
RECURSIVE NoRefThroughProperties(_)
NoRefThroughProperties(v) ==
    /\ (v.k = "dict" /\ HasKey(v, K("$ref")) /\ ~startswith_file(Get(v, K("$ref")).s)) =>
          Head(LocalSegments(Get(v, K("$ref")).s)) # "properties"
    /\ \A n \in 1..Len(v.items) : NoRefThroughProperties(v.items[n][2])

\* C9: on a schema whose local references never pass through "properties",
\* a call ends as the call of the reference extractor on the schema at
\* entry ends: the same pair (or the same error), and the same properties
\* processed in the same order at the same depths.
C9_SameAsImmutableRoot ==
    (Completed /\ NoRefThroughProperties(schema0)
        /\ \A f \in DOMAIN Files : NoRefThroughProperties(Files[f])) =>
        LET r == ReferenceCall(schema0)
        IN /\ out.status = r.status
           /\ out.error = r.error
           /\ out.defaultsFound = r.defaultsFound
           /\ PyEq(out.schemaDefaults, r.schemaDefaults)
           /\ log = r.log

C9_Witness ==
    /\ pc = "returned"
    /\ NoRefThroughProperties(schema0)
    /\ schema # schema0
    /\ out.defaultsFound
    /\ HasKey(out.schemaDefaults, K("p"))
    /\ \E m, n \in 1..Len(log) : m < n /\ log[m][1] = 2 /\ log[n][1] = 1

RECURSIVE NoEmptyDocument(_)
NoEmptyDocument(doc) ==
    \A n \in 1..Len(doc.items) :
        doc.items[n][2].k = "dict" =>
            /\ Len(doc.items[n][2].items) > 0
            /\ NoEmptyDocument(doc.items[n][2])

====
